---- MODULE Spec2Model ----
(***************************************************************************)
(* s3verify: verification of a local file against the checksum published   *)
(* for an S3 object (main.go, utils.go).  The model follows main() from     *)
(* the point where GetObjectAttributes has returned (objAttrs) and the      *)
(* local file has been opened (f).                                          *)
(*                                                                          *)
(* Strings are sequences of one-character strings, byte slices are          *)
(* sequences of integers in 0..255, a nil pointer to a string is NIL, a     *)
(* nil pointer to a struct is the empty sequence and a non-nil one is a     *)
(* one-element sequence holding the struct.                                 *)
(***************************************************************************)
EXTENDS Integers, Sequences, FiniteSets, TLC

(***************************************************************************)
(* Bounds of the model.                                                     *)
(***************************************************************************)
\* longest text after the scheme of an S3Uri, in characters
MaxTail ==
    5

\* longest local file and longest remote object, in bytes
MaxLen ==
    2

\* largest number of part records in a response
MaxParts ==
    2

\* the byte values files are made of ("a", "b")
ByteValues ==
    {97, 98}

(***************************************************************************)
(* Generic helpers.                                                         *)
(***************************************************************************)
Min(a, b) ==
    IF a <= b THEN a ELSE b

\* the elements lo+1 .. hi of s, cut at the end of s (bytes [lo, hi) of a file)
Slice(s, lo, hi) ==
    [i \in 1..(Min(hi, Len(s)) - Min(lo, Len(s))) |-> s[Min(lo, Len(s)) + i]]

RECURSIVE SeqsUpTo(_, _)
\* all sequences over S of length at most n
SeqsUpTo(S, n) ==
    IF n = 0 THEN {<<>>}
    ELSE LET shorter == SeqsUpTo(S, n - 1)
         IN  shorter \cup {Append(s, x) : s \in {t \in shorter : Len(t) = n - 1}, x \in S}

RECURSIVE SumSizes(_, _)
\* sum of the Size fields of the first k part records
SumSizes(parts, k) ==
    IF k = 0 THEN 0 ELSE SumSizes(parts, k - 1) + parts[k].Size

(***************************************************************************)
(* The four supported algorithms and the Go library pieces the program      *)
(* calls: hash.Hash, base64.StdEncoding, fmt.Sprintf("%d").                 *)
(***************************************************************************)
NIL ==
    <<"nil">>

Algorithms ==
    <<"SHA1", "SHA256", "CRC32", "CRC32C">>

AlgorithmSet ==
    {Algorithms[i] : i \in 1..4}

\* sha1.Size, sha256.Size, crc32.Size
DigestSize(alg) ==
    CASE alg = "SHA1" -> 20
      [] alg = "SHA256" -> 32
      [] alg = "CRC32" -> 4
      [] alg = "CRC32C" -> 4

\* Stand-in for the state a library hash starts from: one per algorithm, so
\* that the four algorithms disagree on the same input.
HashSeed(alg) ==
    CASE alg = "SHA1" -> 1
      [] alg = "SHA256" -> 2
      [] alg = "CRC32" -> 3
      [] alg = "CRC32C" -> 4

RECURSIVE HashPoly(_)
\* Stand-in for the library's compression of the absorbed bytes: an
\* order-sensitive polynomial over the bytes, first byte first.  val is the
\* polynomial of data from a zero state and mul the weight a preceding state
\* gets, so that the two halves of data combine to the whole.
HashPoly(data) ==
    IF Len(data) = 0 THEN [val |-> 0, mul |-> 1]
    ELSE IF Len(data) = 1 THEN [val |-> (data[1] + 1) % 46337, mul |-> 257]
    ELSE LET left == HashPoly(SubSeq(data, 1, Len(data) \div 2))
             right == HashPoly(SubSeq(data, (Len(data) \div 2) + 1, Len(data)))
         IN  [val |-> (left.val * right.mul + right.val) % 46337,
              mul |-> (left.mul * right.mul) % 46337]

\* the state of a hash that started from v and absorbed data
HashFold(v, data) ==
    (v * HashPoly(data).mul + HashPoly(data).val) % 46337

\* hash.Hash.Sum(nil) of an instance of alg that has absorbed data: a byte
\* slice of the algorithm's digest size, every byte depending on all of data.
Digest(alg, data) ==
    LET v == HashFold(HashSeed(alg), data)
    IN  [i \in 1..DigestSize(alg) |->
            IF i % 2 = 1 THEN (v + 7 * i) % 256 ELSE ((v \div 256) + 7 * i) % 256]

\* newHash: a fresh instance; utils.go returns an error for any other value
NewHash(v) ==
    IF v \in AlgorithmSet
    THEN [hash |-> [alg |-> v, absorbed |-> <<>>], err |-> FALSE]
    ELSE [hash |-> [alg |-> "", absorbed |-> <<>>], err |-> TRUE]

\* hash.Hash.Write(p)
HashWrite(hh, p) ==
    [hh EXCEPT !.absorbed = @ \o p]

\* hash.Hash.Sum(nil)
HashSum(hh) ==
    Digest(hh.alg, hh.absorbed)

B64Alphabet ==
    << "A","B","C","D","E","F","G","H","I","J","K","L","M","N","O","P",
       "Q","R","S","T","U","V","W","X","Y","Z","a","b","c","d","e","f",
       "g","h","i","j","k","l","m","n","o","p","q","r","s","t","u","v",
       "w","x","y","z","0","1","2","3","4","5","6","7","8","9","+","/" >>

B64Char(n) ==
    B64Alphabet[n + 1]

\* base64.StdEncoding.EncodeToString: every three bytes give four characters
\* of six bits each, the last group is padded with "="
EncodeToString(b) ==
    [j \in 1..(4 * ((Len(b) + 2) \div 3)) |->
        LET g == 3 * ((j - 1) \div 4)
            b1 == b[g + 1]
            b2 == IF g + 2 <= Len(b) THEN b[g + 2] ELSE 0
            b3 == IF g + 3 <= Len(b) THEN b[g + 3] ELSE 0
        IN  CASE (j - 1) % 4 = 0 -> B64Char(b1 \div 4)
              [] (j - 1) % 4 = 1 -> B64Char((b1 % 4) * 16 + (b2 \div 16))
              [] (j - 1) % 4 = 2 -> IF g + 2 > Len(b) THEN "="
                                    ELSE B64Char((b2 % 16) * 4 + (b3 \div 64))
              [] OTHER -> IF g + 3 > Len(b) THEN "=" ELSE B64Char(b3 % 64)]

DecimalDigits ==
    << "0","1","2","3","4","5","6","7","8","9" >>

RECURSIVE FormatInt(_)
\* fmt's %d of a non-negative integer
FormatInt(n) ==
    IF n < 10 THEN << DecimalDigits[n + 1] >>
    ELSE Append(FormatInt(n \div 10), DecimalDigits[(n % 10) + 1])

\* aws.ToString: the empty string for a nil pointer
awsToString(p) ==
    IF p = NIL THEN <<>> ELSE p

(***************************************************************************)
(* utils.go: the checksum descriptor reader.                                *)
(***************************************************************************)
\* getChecksumAlgorithm with the case of SHA256 left out
getChecksumAlgorithm_NoSHA256(v) ==
    IF v.ChecksumSHA1 # NIL THEN [alg |-> "SHA1", err |-> FALSE]
    ELSE IF v.ChecksumCRC32 # NIL THEN [alg |-> "CRC32", err |-> FALSE]
    ELSE IF v.ChecksumCRC32C # NIL THEN [alg |-> "CRC32C", err |-> FALSE]
    ELSE [alg |-> "", err |-> TRUE]

\* getChecksumAlgorithm testing the fields in the opposite order
getChecksumAlgorithm_Reversed(v) ==
    IF v.ChecksumCRC32C # NIL THEN [alg |-> "CRC32C", err |-> FALSE]
    ELSE IF v.ChecksumCRC32 # NIL THEN [alg |-> "CRC32", err |-> FALSE]
    ELSE IF v.ChecksumSHA256 # NIL THEN [alg |-> "SHA256", err |-> FALSE]
    ELSE IF v.ChecksumSHA1 # NIL THEN [alg |-> "SHA1", err |-> FALSE]
    ELSE [alg |-> "", err |-> TRUE]

\* getChecksumAlgorithm: the first populated field, in a fixed order
getChecksumAlgorithm(v) ==
    IF v.ChecksumSHA1 # NIL THEN [alg |-> "SHA1", err |-> FALSE]
    ELSE IF v.ChecksumSHA256 # NIL THEN [alg |-> "SHA256", err |-> FALSE]
    ELSE IF v.ChecksumCRC32 # NIL THEN [alg |-> "CRC32", err |-> FALSE]
    ELSE IF v.ChecksumCRC32C # NIL THEN [alg |-> "CRC32C", err |-> FALSE]
    ELSE [alg |-> "", err |-> TRUE]

\* getChecksum: the field of the given algorithm, "" when it is nil
getChecksum(v, algorithm) ==
    CASE algorithm = "SHA1" -> [sum |-> awsToString(v.ChecksumSHA1), err |-> FALSE]
      [] algorithm = "SHA256" -> [sum |-> awsToString(v.ChecksumSHA256), err |-> FALSE]
      [] algorithm = "CRC32" -> [sum |-> awsToString(v.ChecksumCRC32), err |-> FALSE]
      [] algorithm = "CRC32C" -> [sum |-> awsToString(v.ChecksumCRC32C), err |-> FALSE]
      [] OTHER -> [sum |-> <<>>, err |-> TRUE]

\* getPartChecksum: the same lookup on a part record
getPartChecksum(v, algorithm) ==
    CASE algorithm = "SHA1" -> [sum |-> awsToString(v.ChecksumSHA1), err |-> FALSE]
      [] algorithm = "SHA256" -> [sum |-> awsToString(v.ChecksumSHA256), err |-> FALSE]
      [] algorithm = "CRC32" -> [sum |-> awsToString(v.ChecksumCRC32), err |-> FALSE]
      [] algorithm = "CRC32C" -> [sum |-> awsToString(v.ChecksumCRC32C), err |-> FALSE]
      [] OTHER -> [sum |-> <<>>, err |-> TRUE]

(***************************************************************************)
(* The responses of GetObjectAttributes the model starts from.  A response  *)
(* describes a remote object of content rc uploaded either as one unit or   *)
(* in parts of the given sizes, by a client that used the algorithms in     *)
(* present; it may carry one defect.                                        *)
(***************************************************************************)
RemoteContents ==
    SeqsUpTo(ByteValues, MaxLen)

LocalFiles ==
    SeqsUpTo(ByteValues, MaxLen)

\* the ways of cutting an object of length n into one to MaxParts parts, of
\* which only the last may be empty
PartSizes(n) ==
    {sz \in SeqsUpTo(0..n, MaxParts) :
        /\ Len(sz) >= 1
        /\ \A k \in 1..(Len(sz) - 1) : sz[k] >= 1
        /\ SumSizes([k \in 1..Len(sz) |-> [Size |-> sz[k]]], Len(sz)) = n}

\* the combinations of checksum fields a response carries
PresentFields ==
    {{}, {"CRC32"}, {"SHA1", "CRC32C"}}

RECURSIVE PartDigests(_, _, _, _)
\* the raw digests of the parts k..Len(sizes) of rc, concatenated
PartDigests(alg, rc, sizes, k) ==
    IF k > Len(sizes) THEN <<>>
    ELSE Digest(alg, Slice(rc, SumSizes([j \in 1..Len(sizes) |-> [Size |-> sizes[j]]], k - 1),
                               SumSizes([j \in 1..Len(sizes) |-> [Size |-> sizes[j]]], k)))
         \o PartDigests(alg, rc, sizes, k + 1)

\* what S3 publishes as the checksum of a multipart object
CompositeOf(alg, rc, sizes) ==
    EncodeToString(Digest(alg, PartDigests(alg, rc, sizes, 1)))

ObjectSumKinds ==
    {"plain", "suffixed", "wrong", "wrongSuffix"}

\* the checksum forms of a response for an object uploaded as one unit
SingleSumKinds ==
    {"plain", "wrong", "folded"}

\* the string with its upper-case letters replaced by lower-case ones
ToLower(str) ==
    [j \in 1..Len(str) |->
        IF \E n \in 1..26 : B64Alphabet[n] = str[j]
        THEN B64Alphabet[(CHOOSE n \in 1..26 : B64Alphabet[n] = str[j]) + 26]
        ELSE str[j]]

\* the whole-object checksum string of a response: the one S3 publishes, the
\* same with the number of parts appended (directory buckets), the one of
\* another content, one with a wrong number of parts, one in the wrong case
ObjectSum(alg, rc, sizes, multipart, kind) ==
    LET good == IF multipart THEN CompositeOf(alg, rc, sizes)
                ELSE EncodeToString(Digest(alg, rc))
        bad == EncodeToString(Digest(alg, rc \o <<0>>))
    IN  CASE kind = "plain" -> good
          [] kind = "suffixed" -> good \o <<"-">> \o FormatInt(Len(sizes))
          [] kind = "wrong" -> bad
          [] kind = "folded" -> ToLower(good)
          [] kind = "wrongSuffix" -> good \o <<"-">> \o FormatInt(Len(sizes) + 1)

ChecksumRecord(present, rc, sizes, multipart, kind) ==
    LET field(alg) == IF alg \in present THEN ObjectSum(alg, rc, sizes, multipart, kind) ELSE NIL
    IN  [ChecksumSHA1 |-> field("SHA1"), ChecksumSHA256 |-> field("SHA256"),
         ChecksumCRC32 |-> field("CRC32"), ChecksumCRC32C |-> field("CRC32C")]

\* the part numberings a response may carry for n parts: 1..n, one number
\* skipped, or two neighbours exchanged
Numberings(n) ==
    LET ident == [k \in 1..n |-> k]
    IN  {ident}
        \cup {[ident EXCEPT ![k] = k + 1] : k \in 1..n}
        \cup {[ident EXCEPT ![k] = k + 1, ![k + 1] = k] : k \in 1..(n - 1)}

\* the defects of a part listing: none, a declared count that differs from
\* the records present, the truncation flag, a numbering other than 1..n, a
\* part record without checksum fields
PartDefects(n) ==
    {[kind |-> "none", numbering |-> [k \in 1..n |-> k], missing |-> 0],
     [kind |-> "count", numbering |-> [k \in 1..n |-> k], missing |-> 0],
     [kind |-> "truncated", numbering |-> [k \in 1..n |-> k], missing |-> 0]}
    \cup {[kind |-> "numbering", numbering |-> nb, missing |-> 0] :
            nb \in Numberings(n) \ {[k \in 1..n |-> k]}}
    \cup {[kind |-> "missing", numbering |-> [k \in 1..n |-> k], missing |-> m] : m \in 1..n}

PartRecord(present, rc, sizes, k, defect) ==
    LET lo == SumSizes([j \in 1..Len(sizes) |-> [Size |-> sizes[j]]], k - 1)
        field(alg) == IF alg \in present /\ defect.missing # k
                      THEN EncodeToString(Digest(alg, Slice(rc, lo, lo + sizes[k])))
                      ELSE NIL
    IN  [PartNumber |-> defect.numbering[k], Size |-> sizes[k],
         ChecksumSHA1 |-> field("SHA1"), ChecksumSHA256 |-> field("SHA256"),
         ChecksumCRC32 |-> field("CRC32"), ChecksumCRC32C |-> field("CRC32C")]

ObjectPartsRecord(present, rc, sizes, defect) ==
    [TotalPartsCount |-> IF defect.kind = "count" THEN Len(sizes) + 1 ELSE Len(sizes),
     IsTruncated |-> (defect.kind = "truncated"),
     Parts |-> [k \in 1..Len(sizes) |-> PartRecord(present, rc, sizes, k, defect)]]

\* the responses for an object uploaded as one unit
SingleResponses(rc) ==
    {[Checksum |-> <<>>, ObjectSize |-> Len(rc), ObjectParts |-> <<>>]}
    \cup {[Checksum |-> <<ChecksumRecord(present, rc, <<>>, FALSE, kind)>>,
           ObjectSize |-> Len(rc), ObjectParts |-> <<>>] :
                present \in PresentFields, kind \in SingleSumKinds}

\* a response for an object uploaded in parts of the given sizes
MultipartResponse(rc, sizes, present, kind, defect) ==
    [Checksum |-> <<ChecksumRecord(present, rc, sizes, TRUE, kind)>>,
     ObjectSize |-> Len(rc),
     ObjectParts |-> <<ObjectPartsRecord(present, rc, sizes, defect)>>]

\* the responses for an object uploaded in parts of the given sizes: every
\* form of the whole-object checksum over a sound part listing, and every
\* defect of the part listing under the plain whole-object checksum
MultipartResponses(rc, sizes) ==
    LET sound == CHOOSE d \in PartDefects(Len(sizes)) : d.kind = "none"
    IN  {MultipartResponse(rc, sizes, present, kind, sound) :
            present \in PresentFields, kind \in ObjectSumKinds}
        \cup {MultipartResponse(rc, sizes, present, "plain", defect) :
            present \in PresentFields \ {{}}, defect \in PartDefects(Len(sizes))}

\* every response of the model
Responses ==
    UNION {SingleResponses(rc)
           \cup UNION {MultipartResponses(rc, sizes) : sizes \in PartSizes(Len(rc))} :
               rc \in RemoteContents}

(***************************************************************************)
(* utils.go: parseS3Uri, with strings.HasPrefix and strings.SplitN.         *)
(***************************************************************************)
S3Scheme ==
    <<"s", "3", ":", "/", "/">>

\* strings.HasPrefix
HasPrefix(s, prefix) ==
    Len(s) >= Len(prefix) /\ SubSeq(s, 1, Len(prefix)) = prefix

\* strings.Index(s, "/") counted from 1, 0 when there is none
IndexSlash(s) ==
    IF \E i \in 1..Len(s) : s[i] = "/"
    THEN CHOOSE i \in 1..Len(s) : s[i] = "/" /\ \A j \in 1..(i - 1) : s[j] # "/"
    ELSE 0

\* strings.SplitN(s, "/", 2): s itself when it holds no "/", else the text
\* before the first "/" and all the text after it
SplitN2(s) ==
    IF IndexSlash(s) = 0 THEN <<s>>
    ELSE <<SubSeq(s, 1, IndexSlash(s) - 1), SubSeq(s, IndexSlash(s) + 1, Len(s))>>

\* parseS3Uri cutting at every "/": the key ends at the second "/"
parseS3Uri_SplitEvery(s) ==
    IF ~HasPrefix(s, S3Scheme) THEN << <<>>, <<>> >>
    ELSE LET parts == SplitN2(SubSeq(s, Len(S3Scheme) + 1, Len(s)))
         IN  IF Len(parts) = 1 THEN <<parts[1], <<>> >>
             ELSE <<parts[1], SplitN2(parts[2])[1]>>

\* parseS3Uri: the pair (bucket, key)
parseS3Uri(s) ==
    IF ~HasPrefix(s, S3Scheme) THEN << <<>>, <<>> >>
    ELSE LET parts == SplitN2(SubSeq(s, Len(S3Scheme) + 1, Len(s)))
         IN  IF Len(parts) = 0 THEN << <<>>, <<>> >>
             ELSE IF Len(parts) = 1 THEN <<parts[1], <<>> >>
             ELSE <<parts[1], parts[2]>>

\* an S3Uri that main() accepts: s3://b/k
AcceptedUri ==
    S3Scheme \o <<"b", "/", "k">>

(***************************************************************************)
(* The state of main().                                                     *)
(***************************************************************************)
VARIABLES
    localPath,   \* "-" for standard input, else the path of a regular file
    f,           \* the opened input: its bytes and the read position
    objAttrs,    \* the GetObjectAttributes output
    pc,          \* the statement main() is at
    algorithm,   \* s3Types.ChecksumAlgorithm selected for the run
    objSum,      \* the whole-object checksum of the response
    h,           \* the hash created at line 360
    numParts,    \* TotalPartsCount of the response
    offset,      \* running byte offset of the part loop
    partNumber,  \* the part number the loop expects next
    idx,         \* position of the range loop in ObjectParts.Parts
    sum,         \* the local checksum that is compared with objSum
    partLog,     \* one record per part hash that was created and fed
    outcome,     \* how the run ended
    exitCode,    \* the status passed to os.Exit, -1 while running
    s3Uri,       \* flag.Arg(1)
    bucket,      \* the bucket name parseS3Uri found in s3Uri
    key,         \* the object key parseS3Uri found in s3Uri
    checksumOfChecksums  \* the second hash of the random-access main()

vars ==
    <<localPath, f, objAttrs, pc, algorithm, objSum, h, numParts, offset,
      partNumber, idx, sum, partLog, outcome, exitCode, s3Uri, bucket, key,
      checksumOfChecksums>>

\* the variables of the argument handling, which the verification leaves alone
argVars ==
    <<s3Uri, bucket, key>>

NoHash ==
    [alg |-> "", absorbed |-> <<>>]

Running ==
    [kind |-> "Running", reason |-> "", hasPart |-> FALSE, part |-> 0, lo |-> 0, hi |-> 0]

\* a terminal outcome without part information
Outcome(kind, reason) ==
    [kind |-> kind, reason |-> reason, hasPart |-> FALSE, part |-> 0, lo |-> 0, hi |-> 0]

Init ==
    /\ localPath \in {"-", "file"}
    /\ \E data \in LocalFiles : f = [data |-> data, pos |-> 0]
    /\ objAttrs \in Responses
    /\ pc = "checkChecksum"
    /\ algorithm = ""
    /\ objSum = <<>>
    /\ h = NoHash
    /\ numParts = 0
    /\ offset = 0
    /\ partNumber = 1
    /\ idx = 1
    /\ sum = <<>>
    /\ partLog = <<>>
    /\ outcome = Running
    /\ exitCode = -1
    /\ s3Uri = AcceptedUri
    /\ bucket = parseS3Uri(AcceptedUri)[1]
    /\ key = parseS3Uri(AcceptedUri)[2]
    /\ checksumOfChecksums = NoHash

\* Exit with os.Exit(0) at every exit
Exit_StatusZero(kind, reason, code) ==
    /\ pc' = "exit"
    /\ outcome' = Outcome(kind, reason)
    /\ exitCode' = 0

\* Exit with the call of os.Exit forgotten: the message is printed and main goes on
Exit_Continue(kind, reason, code) ==
    /\ pc' = pc
    /\ outcome' = Outcome(kind, reason)
    /\ exitCode' = code

\* os.Exit(code) after the message of the given kind
Exit(kind, reason, code) ==
    /\ pc' = "exit"
    /\ outcome' = Outcome(kind, reason)
    /\ exitCode' = code

(***************************************************************************)
(* main(), lines 328-366: the checks before any hashing.                    *)
(***************************************************************************)
\* lines 328-333
CheckChecksum ==
    /\ pc = "checkChecksum"
    /\ IF objAttrs.Checksum = <<>>
       THEN Exit("StructuralError", "no checksum", 1)
       ELSE pc' = "compareSizes" /\ UNCHANGED <<outcome, exitCode>>
    /\ UNCHANGED <<localPath, f, objAttrs, algorithm, objSum, h, numParts, offset,
                   partNumber, idx, sum, partLog>>
    /\ UNCHANGED <<argVars, checksumOfChecksums>>

\* sizeIsKnown with the exemption of standard input forgotten
sizeIsKnown_Always(path) ==
    TRUE

\* line 336: the sizes are compared unless the input is standard input
sizeIsKnown(path) ==
    path # "-"

\* lines 335-348; os.Stat gives the length of the file
CompareSizes ==
    /\ pc = "compareSizes"
    /\ IF sizeIsKnown(localPath) /\ objAttrs.ObjectSize # Len(f.data)
       THEN Exit("ObjectSizeMismatch", "size", 1)
       ELSE pc' = "selectAlgorithm" /\ UNCHANGED <<outcome, exitCode>>
    /\ UNCHANGED <<localPath, f, objAttrs, algorithm, objSum, h, numParts, offset,
                   partNumber, idx, sum, partLog>>
    /\ UNCHANGED <<argVars, checksumOfChecksums>>

\* lines 350-366, and the branch of line 368
SelectAlgorithm ==
    /\ pc = "selectAlgorithm"
    /\ LET sel == getChecksumAlgorithm(objAttrs.Checksum[1])
           cs == getChecksum(objAttrs.Checksum[1], sel.alg)
           nh == NewHash(sel.alg)
       IN  IF sel.err
           THEN /\ Exit("StructuralError", "no algorithm", 1)
                /\ UNCHANGED <<algorithm, objSum, h>>
           ELSE IF cs.err \/ nh.err
           THEN /\ Exit("UnsupportedAlgorithm", "unsupported algorithm", 1)
                /\ algorithm' = sel.alg
                /\ UNCHANGED <<objSum, h>>
           ELSE /\ algorithm' = sel.alg
                /\ objSum' = cs.sum
                /\ h' = nh.hash
                /\ pc' = IF objAttrs.ObjectParts = <<>> THEN "singleStream" ELSE "multipart"
                /\ UNCHANGED <<outcome, exitCode>>
    /\ UNCHANGED <<localPath, f, objAttrs, numParts, offset, partNumber, idx, sum, partLog>>
    /\ UNCHANGED <<argVars, checksumOfChecksums>>

(***************************************************************************)
(* main(), lines 368-385: an object that was uploaded as one unit.          *)
(***************************************************************************)
\* sameChecksum comparing the lengths only
sameChecksum_LengthOnly(local, remote) ==
    Len(local) = Len(remote)

\* sameChecksum ignoring the case of the letters (strings.EqualFold)
sameChecksum_IgnoreCase(local, remote) ==
    ToLower(local) = ToLower(remote)

\* lines 379 and 447: the comparison that decides the verdict
sameChecksum(local, remote) ==
    local = remote

\* the verdict printed at lines 379-384 and 447-452
Verdict(local, remote) ==
    IF sameChecksum(local, remote)
    THEN Exit("Match", "identical", 0)
    ELSE Exit("Mismatch", "checksum", 1)

\* lines 370-384 when io.Copy returns no error: all of f goes through h
SingleStream ==
    /\ pc = "singleStream"
    /\ LET rest == Slice(f.data, f.pos, Len(f.data))
           hh == HashWrite(h, rest)
           local == EncodeToString(HashSum(hh))
       IN  /\ h' = hh
           /\ f' = [f EXCEPT !.pos = Len(f.data)]
           /\ sum' = local
           /\ Verdict(local, objSum)
    /\ UNCHANGED <<localPath, objAttrs, algorithm, objSum, numParts, offset,
                   partNumber, idx, partLog>>
    /\ UNCHANGED <<argVars, checksumOfChecksums>>

\* readErrorExit with the error dropped: main() goes on from where it is
readErrorExit_GoOn(code) ==
    UNCHANGED <<pc, outcome, exitCode>>

\* lines 371-374 and 415-418: the error of io.Copy is printed and ends the run
readErrorExit(code) ==
    Exit("IOError", "read", code)

\* lines 370-374 when a read fails after n more bytes
SingleStreamReadError ==
    /\ pc = "singleStream"
    /\ \E n \in 0..(Len(f.data) - f.pos) :
          /\ h' = HashWrite(h, Slice(f.data, f.pos, f.pos + n))
          /\ f' = [f EXCEPT !.pos = f.pos + n]
    /\ readErrorExit(1)
    /\ UNCHANGED <<localPath, objAttrs, algorithm, objSum, numParts, offset,
                   partNumber, idx, sum, partLog>>
    /\ UNCHANGED <<argVars, checksumOfChecksums>>

(***************************************************************************)
(* main(), lines 387-453: an object that was uploaded in parts.             *)
(***************************************************************************)
\* partsIncomplete without the test of IsTruncated
partsIncomplete_CountOnly(n, objectParts) ==
    n # Len(objectParts.Parts)

\* line 392: the response does not hold every part
partsIncomplete(n, objectParts) ==
    n # Len(objectParts.Parts) \/ objectParts.IsTruncated

\* lines 388-401
ValidateParts ==
    /\ pc = "multipart"
    /\ numParts' = objAttrs.ObjectParts[1].TotalPartsCount
    /\ IF partsIncomplete(objAttrs.ObjectParts[1].TotalPartsCount, objAttrs.ObjectParts[1])
       THEN /\ Exit("StructuralError", "more parts", 1)
            /\ UNCHANGED <<offset, partNumber, idx>>
       ELSE /\ pc' = "partLoop"
            /\ offset' = 0
            /\ partNumber' = 1
            /\ idx' = 1
            /\ UNCHANGED <<outcome, exitCode>>
    /\ UNCHANGED <<localPath, f, objAttrs, algorithm, objSum, h, sum, partLog>>
    /\ UNCHANGED <<argVars, checksumOfChecksums>>

\* line 403: the part record is not the one the loop expects
outOfOrder(expected, part) ==
    expected # part.PartNumber

\* limitRead on a reader rewound to the start of the file for every part
limitRead_FromStart(file, partSize) ==
    Slice(file.data, 0, partSize)

\* limitRead without the limit: io.Copy(partHash, f)
limitRead_WholeFile(file, partSize) ==
    Slice(file.data, file.pos, Len(file.data))

\* line 414: what io.LimitReader(f, partSize) hands to io.Copy, the next
\* partSize bytes of f or fewer when f ends before
limitRead(file, partSize) ==
    Slice(file.data, file.pos, file.pos + partSize)

\* compositeInput taking the base64 text of the digest instead of its bytes
compositeInput_Encoded(partSum) ==
    EncodeToString(partSum)

\* line 434: what the checksum of checksums absorbs for a part
compositeInput(partSum) ==
    partSum

\* nextOffset that does not advance
nextOffset_Stuck(off, partSize) ==
    off

\* line 435
nextOffset(off, partSize) ==
    off + partSize

\* lines 402-406: a part record out of order ends the run
PartOutOfOrder ==
    /\ pc = "partLoop"
    /\ idx <= Len(objAttrs.ObjectParts[1].Parts)
    /\ outOfOrder(partNumber, objAttrs.ObjectParts[1].Parts[idx])
    /\ Exit("StructuralError", "not sorted", 1)
    /\ UNCHANGED <<localPath, f, objAttrs, algorithm, objSum, h, numParts, offset,
                   partNumber, idx, sum, partLog>>
    /\ UNCHANGED <<argVars, checksumOfChecksums>>

\* lines 402-437 when io.Copy returns no error: one iteration of the loop
PartStep ==
    /\ pc = "partLoop"
    /\ idx <= Len(objAttrs.ObjectParts[1].Parts)
    /\ ~outOfOrder(partNumber, objAttrs.ObjectParts[1].Parts[idx])
    /\ LET part == objAttrs.ObjectParts[1].Parts[idx]
           partSize == part.Size
           data == limitRead(f, partSize)
           partHash == HashWrite(NewHash(algorithm).hash, data)
           partSum == HashSum(partHash)
           partSumEncoded == EncodeToString(partSum)
           partChecksum == getPartChecksum(part, algorithm)
           matched == ~partChecksum.err /\ partSumEncoded = partChecksum.sum
       IN  /\ f' = [f EXCEPT !.pos = f.pos + Len(data)]
           /\ partLog' = Append(partLog, [partNumber |-> partNumber, at |-> f.pos,
                                          data |-> data, partSum |-> partSum,
                                          matched |-> matched, failed |-> FALSE])
           /\ IF partChecksum.err
              THEN /\ Exit("UnsupportedAlgorithm", "unsupported algorithm", 1)
                   /\ UNCHANGED <<h, offset, partNumber, idx>>
              ELSE IF ~matched
              THEN /\ pc' = "exit"
                   /\ outcome' = [kind |-> "Mismatch", reason |-> "part", hasPart |-> TRUE,
                                  part |-> partNumber, lo |-> offset,
                                  hi |-> offset + partSize]
                   /\ exitCode' = 1
                   /\ UNCHANGED <<h, offset, partNumber, idx>>
              ELSE /\ h' = HashWrite(h, compositeInput(partSum))
                   /\ offset' = nextOffset(offset, partSize)
                   /\ partNumber' = partNumber + 1
                   /\ idx' = idx + 1
                   /\ UNCHANGED <<pc, outcome, exitCode>>
    /\ UNCHANGED <<localPath, objAttrs, algorithm, objSum, numParts, sum>>
    /\ UNCHANGED <<argVars, checksumOfChecksums>>

\* lines 414-418 when a read fails after n bytes of the part
PartReadError ==
    /\ pc = "partLoop"
    /\ idx <= Len(objAttrs.ObjectParts[1].Parts)
    /\ ~outOfOrder(partNumber, objAttrs.ObjectParts[1].Parts[idx])
    /\ \E n \in 0..Len(limitRead(f, objAttrs.ObjectParts[1].Parts[idx].Size)) :
          /\ f' = [f EXCEPT !.pos = f.pos + n]
          /\ partLog' = Append(partLog, [partNumber |-> partNumber, at |-> f.pos,
                                         data |-> Slice(f.data, f.pos, f.pos + n),
                                         partSum |-> <<>>,
                                         matched |-> FALSE, failed |-> TRUE])
    /\ readErrorExit(1)
    /\ UNCHANGED <<localPath, objAttrs, algorithm, objSum, h, numParts, offset,
                   partNumber, idx, sum>>
    /\ UNCHANGED <<argVars, checksumOfChecksums>>

\* withPartCount appending the number of parts in every case
withPartCount_Always(local, remote, n) ==
    local \o <<"-">> \o FormatInt(n)

\* lines 440-443: directory buckets append the number of parts
withPartCount(local, remote, n) ==
    IF Len(local) # Len(remote)
    THEN local \o <<"-">> \o FormatInt(n)
    ELSE local

\* lines 439-452, after the last part
FinalCompare ==
    /\ pc = "partLoop"
    /\ idx > Len(objAttrs.ObjectParts[1].Parts)
    /\ LET local == withPartCount(EncodeToString(HashSum(h)), objSum, numParts)
       IN  /\ sum' = local
           /\ Verdict(local, objSum)
    /\ UNCHANGED <<localPath, f, objAttrs, algorithm, objSum, h, numParts, offset,
                   partNumber, idx, partLog>>
    /\ UNCHANGED <<argVars, checksumOfChecksums>>

Next ==
    \/ CheckChecksum
    \/ CompareSizes
    \/ SelectAlgorithm
    \/ SingleStream
    \/ SingleStreamReadError
    \/ ValidateParts
    \/ PartOutOfOrder
    \/ PartStep
    \/ PartReadError
    \/ FinalCompare

Spec ==
    Init /\ [][Next]_vars

(***************************************************************************)
(* What the properties below talk about: the response and the local file   *)
(* as given, independent of the state main() has built from them.          *)
(***************************************************************************)
Done ==
    pc = "exit"

\* the checksum field of an algorithm on a Checksum or ObjectPart record
FieldOf(rec, alg) ==
    CASE alg = "SHA1" -> rec.ChecksumSHA1
      [] alg = "SHA256" -> rec.ChecksumSHA256
      [] alg = "CRC32" -> rec.ChecksumCRC32
      [] alg = "CRC32C" -> rec.ChecksumCRC32C
      [] OTHER -> NIL

\* the response carries a checksum record with a supported algorithm
HasAlgorithm ==
    /\ objAttrs.Checksum # <<>>
    /\ \E a \in AlgorithmSet : FieldOf(objAttrs.Checksum[1], a) # NIL

\* the algorithm of the run and the whole-object checksum of the response
RunAlgorithm ==
    getChecksumAlgorithm(objAttrs.Checksum[1]).alg

RemoteSum ==
    FieldOf(objAttrs.Checksum[1], RunAlgorithm)

\* the run gets to the hashing: the checks of lines 328-364 let it through
ReachesHashing ==
    /\ HasAlgorithm
    /\ localPath = "-" \/ objAttrs.ObjectSize = Len(f.data)

InSingleStreamPath ==
    ReachesHashing /\ objAttrs.ObjectParts = <<>>

InMultipartPath ==
    ReachesHashing /\ objAttrs.ObjectParts # <<>>

Listing ==
    objAttrs.ObjectParts[1]

NParts ==
    Len(Listing.Parts)

ListingComplete ==
    Listing.TotalPartsCount = NParts /\ ~Listing.IsTruncated

\* the part records 1..k carry the numbers 1..k
NumberedUpTo(k) ==
    \A j \in 1..k : Listing.Parts[j].PartNumber = j

\* the bytes of the local file in the span of part k
ByteRange(k) ==
    Slice(f.data, SumSizes(Listing.Parts, k - 1), SumSizes(Listing.Parts, k))

\* part k's record carries the digest of the local bytes in its span
PartAgrees(k) ==
    FieldOf(Listing.Parts[k], RunAlgorithm)
        = EncodeToString(Digest(RunAlgorithm, ByteRange(k)))

RECURSIVE RawPartDigests(_)
\* the raw digests of the local bytes of parts 1..k, concatenated
RawPartDigests(k) ==
    IF k = 0 THEN <<>>
    ELSE RawPartDigests(k - 1) \o Digest(RunAlgorithm, ByteRange(k))

\* the checksum of checksums of the local file cut as the listing says
LocalComposite ==
    EncodeToString(Digest(RunAlgorithm, RawPartDigests(NParts)))

PartCountSuffix ==
    <<"-">> \o FormatInt(Listing.TotalPartsCount)

NoReadFailed ==
    outcome.kind # "IOError"

(***************************************************************************)
(* C1.  A multipart object whose part sizes sum to the length of the local  *)
(* file, whose part records carry the digests of the local bytes in their   *)
(* spans and whose whole-object checksum is the checksum of checksums of    *)
(* those digests, with or without the "-<numParts>" suffix, is reported as  *)
(* Match (when no read fails).                                              *)
(***************************************************************************)
CorrectMultipartDescriptor ==
    /\ HasAlgorithm
    /\ objAttrs.ObjectParts # <<>>
    /\ objAttrs.ObjectSize = Len(f.data)
    /\ ListingComplete
    /\ NumberedUpTo(NParts)
    /\ SumSizes(Listing.Parts, NParts) = Len(f.data)
    /\ \A k \in 1..NParts : PartAgrees(k)
    /\ RemoteSum \in {LocalComposite, LocalComposite \o PartCountSuffix}

C1_CorrectMultipartMatches ==
    (Done /\ NoReadFailed /\ CorrectMultipartDescriptor) => outcome.kind = "Match"

\* a two-part object with both letters, published with the suffix, matched
C1_Witness ==
    /\ Done
    /\ CorrectMultipartDescriptor
    /\ outcome.kind = "Match"
    /\ NParts = 2
    /\ \A k \in 1..2 : Listing.Parts[k].Size > 0
    /\ f.data[1] # f.data[2]
    /\ RemoteSum = LocalComposite \o PartCountSuffix

(***************************************************************************)
(* C2.  In the multipart path, when parts 1..k-1 agree with the local file  *)
(* and part k (whose span lies within the file) does not, the run stops at  *)
(* part k: Mismatch for part number k and the byte range from the sum of    *)
(* the sizes of parts 1..k-1 to that plus the size of part k, and no part   *)
(* after k is ever read or hashed.                                          *)
(***************************************************************************)
FirstDisagreement(k) ==
    /\ InMultipartPath
    /\ ListingComplete
    /\ k \in 1..NParts
    /\ NumberedUpTo(k)
    /\ SumSizes(Listing.Parts, k) <= Len(f.data)
    /\ \A j \in 1..(k - 1) : PartAgrees(j)
    /\ ~PartAgrees(k)

C2_StopsAtFirstBadPart ==
    \A k \in 1..MaxParts + 1 :
        FirstDisagreement(k) =>
            /\ Len(partLog) <= k
            /\ f.pos <= SumSizes(Listing.Parts, k)
            /\ (Done /\ NoReadFailed) =>
                  /\ outcome = [kind |-> "Mismatch", reason |-> "part", hasPart |-> TRUE,
                                part |-> k,
                                lo |-> SumSizes(Listing.Parts, k - 1),
                                hi |-> SumSizes(Listing.Parts, k)]
                  /\ Len(partLog) = k

\* the second part of two non-empty parts disagrees and the run has ended
C2_Witness ==
    /\ Done
    /\ NoReadFailed
    /\ FirstDisagreement(2)
    /\ Listing.Parts[1].Size > 0
    /\ Listing.Parts[2].Size > 0
    /\ outcome.kind = "Mismatch"
    /\ outcome.part = 2
    /\ outcome.lo = Listing.Parts[1].Size

(***************************************************************************)
(* C3.  A part listing whose numbers are not 1..N in that order ends the    *)
(* run with StructuralError and never with Mismatch, whatever the local     *)
(* file holds (here: a local file of the declared length).                  *)
(***************************************************************************)
DeclaredLength ==
    SumSizes(Listing.Parts, NParts)

C3_MisnumberedIsStructuralError ==
    (/\ Done
     /\ NoReadFailed
     /\ InMultipartPath
     /\ ListingComplete
     /\ ~NumberedUpTo(NParts)
     /\ Len(f.data) = DeclaredLength)
        => outcome.kind = "StructuralError"

(***************************************************************************)
(* C4.  In the multipart path Match is produced only when the local stream  *)
(* holds exactly as many bytes as the parts declare, standard input         *)
(* included (here: for an object that is not empty).                        *)
(***************************************************************************)
C4_MatchOnlyOnExactLength ==
    (Done /\ InMultipartPath /\ DeclaredLength > 0 /\ outcome.kind = "Match")
        => Len(f.data) = DeclaredLength

(***************************************************************************)
(* C5.  A part record that omits the digest of the selected algorithm ends  *)
(* the run with StructuralError, not with a Mismatch for that part (here:   *)
(* for a local file of the declared length).                                *)
(***************************************************************************)
C5_MissingPartDigestIsStructuralError ==
    (/\ Done
     /\ InMultipartPath
     /\ Len(f.data) = DeclaredLength
     /\ partLog # <<>>
     /\ ~partLog[Len(partLog)].failed
     /\ FieldOf(Listing.Parts[Len(partLog)], RunAlgorithm) = NIL)
        => outcome.kind = "StructuralError"

(***************************************************************************)
(* C6.  A declared part count that differs from the number of part records  *)
(* present, or the truncation flag, ends the run before any byte of the     *)
(* local stream is read or hashed and without a verdict: no prefix of the   *)
(* parts is verified.  The run that gets to the part listing ends with the  *)
(* StructuralError of line 393 (an earlier check may end it before that).   *)
(***************************************************************************)
ListingIncomplete ==
    objAttrs.ObjectParts # <<>> /\ ~ListingComplete

C6_IncompleteListingRejectedFirst ==
    ListingIncomplete =>
        /\ f.pos = 0
        /\ partLog = <<>>
        /\ h.absorbed = <<>>
        /\ outcome.kind \notin {"Match", "Mismatch"}
        /\ (Done /\ InMultipartPath) => outcome = Outcome("StructuralError", "more parts")

\* a truncated listing whose first part agrees with the local file, rejected
C6_Witness ==
    /\ Done
    /\ InMultipartPath
    /\ Listing.IsTruncated
    /\ Listing.TotalPartsCount = NParts
    /\ Len(f.data) > 0
    /\ Listing.Parts[1].Size > 0
    /\ PartAgrees(1)
    /\ outcome.kind = "StructuralError"

(***************************************************************************)
(* C7.  At the final comparison "-<numParts>" is appended to the base64     *)
(* checksum of checksums if and only if its length differs from the length  *)
(* of the whole-object checksum of the response; with equal lengths it is   *)
(* compared as it is.                                                       *)
(***************************************************************************)
AtFinalVerdict ==
    /\ Done
    /\ InMultipartPath
    /\ outcome.reason \in {"identical", "checksum"}

C7_SuffixIffLengthsDiffer ==
    AtFinalVerdict =>
        LET base == EncodeToString(HashSum(h))
        IN  /\ Len(base) # Len(RemoteSum) => sum = base \o PartCountSuffix
            /\ Len(base) = Len(RemoteSum) => sum = base

\* the suffix was appended and the suffixed checksum did not match
C7_Witness ==
    /\ AtFinalVerdict
    /\ sum = EncodeToString(HashSum(h)) \o PartCountSuffix
    /\ outcome.kind = "Mismatch"
    /\ NParts = 2

(***************************************************************************)
(* C8.  After every part has matched, the outcome is Match exactly when     *)
(* the checksum of checksums, with the suffix where the rule of C7 adds     *)
(* it, is string-equal to the whole-object checksum of the response;        *)
(* otherwise it is Mismatch without a part number.                          *)
(***************************************************************************)
AllPartsMatched ==
    /\ InMultipartPath
    /\ ListingComplete
    /\ Len(partLog) = NParts
    /\ \A k \in 1..NParts : partLog[k].matched

RECURSIVE LoggedDigests(_)
\* the raw digests of the parts 1..k as they were computed, concatenated
LoggedDigests(k) ==
    IF k = 0 THEN <<>> ELSE LoggedDigests(k - 1) \o partLog[k].partSum

Candidate ==
    LET base == EncodeToString(Digest(RunAlgorithm, LoggedDigests(NParts)))
    IN  IF Len(base) # Len(RemoteSum) THEN base \o PartCountSuffix ELSE base

C8_FinalVerdictIsStringEquality ==
    (Done /\ AllPartsMatched) =>
        /\ outcome.kind = "Match" <=> Candidate = RemoteSum
        /\ Candidate # RemoteSum => outcome = Outcome("Mismatch", "checksum")

\* both parts matched and the checksum of checksums did not
C8_Witness ==
    /\ Done
    /\ AllPartsMatched
    /\ NParts = 2
    /\ Len(f.data) = 2
    /\ Candidate # RemoteSum
    /\ outcome = Outcome("Mismatch", "checksum")

(***************************************************************************)
(* C9.  In the single-stream path the outcome is Match exactly when the     *)
(* base64 digest of all bytes of the local stream is string-equal, case     *)
(* included, to the whole-object checksum of the response, and otherwise    *)
(* Mismatch without part information; a matching file with any one byte     *)
(* changed has another digest, so it is a Mismatch.                         *)
(***************************************************************************)
WholeFileSum(data) ==
    EncodeToString(Digest(RunAlgorithm, data))

C9_SingleStreamVerdict ==
    (Done /\ NoReadFailed /\ InSingleStreamPath) =>
        /\ outcome.kind = "Match" <=> WholeFileSum(f.data) = RemoteSum
        /\ WholeFileSum(f.data) # RemoteSum => outcome = Outcome("Mismatch", "checksum")
        /\ outcome.kind = "Match" =>
              \A i \in 1..Len(f.data) : \A b \in ByteValues \ {f.data[i]} :
                  WholeFileSum([f.data EXCEPT ![i] = b]) # RemoteSum

\* a file of the right length that differs from the remote object in one byte
C9_Witness ==
    /\ Done
    /\ InSingleStreamPath
    /\ localPath # "-"
    /\ Len(f.data) = 2
    /\ outcome = Outcome("Mismatch", "checksum")
    /\ \E i \in 1..2 : \E b \in ByteValues :
          WholeFileSum([f.data EXCEPT ![i] = b]) = RemoteSum

(***************************************************************************)
(* C10.  When the response carries a checksum record and the local input    *)
(* is a regular file whose size differs from the declared object size, the  *)
(* outcome is ObjectSizeMismatch, no hash is created and no byte of the     *)
(* file is read; for standard input the sizes are never compared, so the    *)
(* outcome is never ObjectSizeMismatch.                                     *)
(***************************************************************************)
SizesDiffer ==
    localPath # "-" /\ objAttrs.ObjectSize # Len(f.data)

C10_SizeCheckOnlyForRegularFiles ==
    /\ (objAttrs.Checksum # <<>> /\ SizesDiffer) =>
          /\ f.pos = 0
          /\ h = NoHash
          /\ partLog = <<>>
          /\ Done => outcome = Outcome("ObjectSizeMismatch", "size")
    /\ localPath = "-" => outcome.kind # "ObjectSizeMismatch"

(***************************************************************************)
(* C10 as stated: a regular file whose size differs from the declared       *)
(* object size always ends in ObjectSizeMismatch, with no byte read; for    *)
(* standard input the outcome is never ObjectSizeMismatch.                  *)
(***************************************************************************)
C10_AnySizeDifferenceIsSizeMismatch ==
    /\ (Done /\ SizesDiffer) => (outcome.kind = "ObjectSizeMismatch" /\ f.pos = 0)
    /\ localPath = "-" => outcome.kind # "ObjectSizeMismatch"

\* a regular file shorter than the object, rejected without being read
C10_Witness ==
    /\ Done
    /\ localPath # "-"
    /\ Len(f.data) = 1
    /\ objAttrs.ObjectSize = 2
    /\ HasAlgorithm
    /\ outcome.kind = "ObjectSizeMismatch"

(***************************************************************************)
(* The descriptor reader under every combination of populated fields: the  *)
(* same main(), started on responses whose checksum record carries any of   *)
(* the sixteen subsets of the four fields, each field holding the checksum  *)
(* of its own algorithm, and whose part records carry the same fields or    *)
(* all four.                                                                *)
(***************************************************************************)
\* one remote object of every length from 1 to MaxLen: "a", "ab", "aba", ...
ReaderContents ==
    {rc \in RemoteContents : Len(rc) >= 1 /\ \A i \in 1..Len(rc) : rc[i] = 97 + ((i - 1) % 2)}

ReaderPresentFields ==
    SUBSET AlgorithmSet

\* a response whose part records carry the fields in partPresent
ReaderMultipartResponse(rc, sizes, present, partPresent, defect) ==
    [Checksum |-> <<ChecksumRecord(present, rc, sizes, TRUE, "plain")>>,
     ObjectSize |-> Len(rc),
     ObjectParts |-> <<ObjectPartsRecord(partPresent, rc, sizes, defect)>>]

ReaderResponses ==
    UNION {
        {[Checksum |-> <<ChecksumRecord(present, rc, <<>>, FALSE, "plain")>>,
          ObjectSize |-> Len(rc), ObjectParts |-> <<>>] : present \in ReaderPresentFields}
        \cup {[Checksum |-> <<>>, ObjectSize |-> Len(rc), ObjectParts |-> <<>>]}
        \cup UNION {
            UNION {
                {ReaderMultipartResponse(rc, sizes, present, partPresent, defect) :
                    partPresent \in {present, AlgorithmSet},
                    defect \in {d \in PartDefects(Len(sizes)) : d.kind \in {"none", "numbering"}}} :
                present \in ReaderPresentFields} :
            sizes \in PartSizes(Len(rc))} :
        rc \in ReaderContents}

ReaderInit ==
    /\ localPath \in {"-", "file"}
    /\ \E data \in LocalFiles : f = [data |-> data, pos |-> 0]
    /\ objAttrs \in ReaderResponses
    /\ pc = "checkChecksum"
    /\ algorithm = ""
    /\ objSum = <<>>
    /\ h = NoHash
    /\ numParts = 0
    /\ offset = 0
    /\ partNumber = 1
    /\ idx = 1
    /\ sum = <<>>
    /\ partLog = <<>>
    /\ outcome = Running
    /\ exitCode = -1
    /\ s3Uri = AcceptedUri
    /\ bucket = parseS3Uri(AcceptedUri)[1]
    /\ key = parseS3Uri(AcceptedUri)[2]
    /\ checksumOfChecksums = NoHash

ReaderSpec ==
    ReaderInit /\ [][Next]_vars

\* the fields of the checksum record that are populated
Populated ==
    {a \in AlgorithmSet : FieldOf(objAttrs.Checksum[1], a) # NIL}

\* the run has got to line 350 and past the selection
SelectionDone ==
    /\ objAttrs.Checksum # <<>>
    /\ localPath = "-" \/ objAttrs.ObjectSize = Len(f.data)
    /\ pc \notin {"checkChecksum", "compareSizes", "selectAlgorithm"}

(***************************************************************************)
(* C11.  With only the field of algorithm A populated the selection gives   *)
(* A and no error, for each of the four algorithms; with no field           *)
(* populated it gives an error (the run ends with StructuralError) and no   *)
(* algorithm, and no hash is created.                                       *)
(***************************************************************************)
C11_SelectsTheOnlyPopulatedField ==
    SelectionDone =>
        /\ \A a \in AlgorithmSet :
              Populated = {a} =>
                  /\ algorithm = a
                  /\ h.alg = a
                  /\ objSum = FieldOf(objAttrs.Checksum[1], a)
                  /\ outcome.reason \notin {"no algorithm", "unsupported algorithm"}
        /\ Populated = {} =>
              /\ algorithm = ""
              /\ h = NoHash
              /\ outcome = Outcome("StructuralError", "no algorithm")

\* only SHA256 is populated, SHA256 was selected and the file matched
C11_Witness ==
    /\ SelectionDone
    /\ Populated = {"SHA256"}
    /\ algorithm = "SHA256"
    /\ outcome.kind = "Match"

(***************************************************************************)
(* C12.  Whatever fields are populated, the algorithm selected is that of   *)
(* the first populated field in the order SHA1, SHA256, CRC32, CRC32C, and  *)
(* the whole-object checksum and every part checksum that the local         *)
(* digests are compared with are the fields of that algorithm.              *)
(***************************************************************************)
FirstPopulated ==
    Algorithms[CHOOSE i \in 1..4 :
                  /\ Algorithms[i] \in Populated
                  /\ \A j \in 1..(i - 1) : Algorithms[j] \notin Populated]

C12_FirstPopulatedFieldInFixedOrder ==
    (SelectionDone /\ Populated # {}) =>
        /\ algorithm = FirstPopulated
        /\ h.alg = FirstPopulated
        /\ objSum = FieldOf(objAttrs.Checksum[1], FirstPopulated)
        /\ \A k \in 1..Len(partLog) :
              ~partLog[k].failed =>
                  /\ partLog[k].partSum = Digest(FirstPopulated, partLog[k].data)
                  /\ partLog[k].matched <=>
                        EncodeToString(partLog[k].partSum)
                            = awsToString(FieldOf(Listing.Parts[k], FirstPopulated))
        /\ outcome.reason \in {"identical", "checksum"} =>
              (outcome.kind = "Match" <=> sum = FieldOf(objAttrs.Checksum[1], FirstPopulated))

\* SHA256, CRC32 and CRC32C are populated, the parts carry all four fields,
\* and the run matched two parts and the whole object under SHA256
C12_Witness ==
    /\ SelectionDone
    /\ Populated = {"SHA256", "CRC32", "CRC32C"}
    /\ objAttrs.ObjectParts # <<>>
    /\ NParts = 2
    /\ \A k \in 1..2 : FieldOf(Listing.Parts[k], "SHA1") # NIL
    /\ Len(partLog) = 2
    /\ algorithm = "SHA256"
    /\ outcome.kind = "Match"

(***************************************************************************)
(* The course of a run.                                                     *)
(***************************************************************************)
\* the statements of main() in the order of the text
PhaseRank(p) ==
    CASE p = "checkChecksum" -> 1
      [] p = "compareSizes" -> 2
      [] p = "selectAlgorithm" -> 3
      [] p = "singleStream" -> 4
      [] p = "multipart" -> 4
      [] p = "partLoop" -> 5
      [] p = "exit" -> 6

TerminalKinds ==
    {"Match", "Mismatch", "ObjectSizeMismatch", "UnsupportedAlgorithm", "StructuralError",
     "IOError"}

\* a step goes to a later statement, or from one part of the loop to the next
PhaseForward ==
    \/ PhaseRank(pc') > PhaseRank(pc)
    \/ /\ pc = "partLoop"
       /\ pc' = "partLoop"
       /\ idx' = idx + 1
       /\ partNumber' = partNumber + 1
       /\ Len(partLog') = Len(partLog) + 1
       /\ SubSeq(partLog', 1, Len(partLog)) = partLog
       /\ f'.pos >= f.pos

\* the statement main() is at has a step: the guards of the actions, which
\* in the part loop are those of lines 402, 403 and of leaving the loop
CanStep ==
    \/ pc \in {"checkChecksum", "compareSizes", "selectAlgorithm", "singleStream", "multipart"}
    \/ /\ pc = "partLoop"
       /\ \/ idx = Len(objAttrs.ObjectParts[1].Parts) + 1
          \/ /\ idx \in 1..Len(objAttrs.ObjectParts[1].Parts)
             /\ \/ outOfOrder(partNumber, objAttrs.ObjectParts[1].Parts[idx])
                \/ ~outOfOrder(partNumber, objAttrs.ObjectParts[1].Parts[idx])

\* one outcome, given when the run ends and not before
OneOutcome ==
    /\ Done => outcome.kind \in TerminalKinds
    /\ ~Done => (outcome = Running /\ exitCode = -1)

\* Match in the multipart path comes after all the parts, each one matched
MatchAfterAllParts ==
    (outcome.kind = "Match" /\ objAttrs.ObjectParts # <<>>) =>
        /\ idx = NParts + 1
        /\ Len(partLog) = NParts
        /\ \A k \in 1..NParts : partLog[k].matched /\ partLog[k].partNumber = k

(***************************************************************************)
(* C13.  Every run ends, with exactly one of the terminal outcomes; the     *)
(* statements of main() are passed in the order of the text and the parts   *)
(* in the order of the listing, one after the other, nothing twice; Match   *)
(* comes only after every part was processed and matched.  Termination is   *)
(* stated as: every step moves forward in an order that has an end, and     *)
(* every statement before the end has a step.                               *)
(***************************************************************************)
C13_TerminatesForwardOnly ==
    /\ [][PhaseForward]_vars
    /\ [](Done \/ CanStep)
    /\ [](idx <= (IF objAttrs.ObjectParts = <<>> THEN 0 ELSE NParts) + 1)
    /\ []OneOutcome
    /\ []MatchAfterAllParts

\* a run over two non-empty parts that ended in Match
C13_Witness ==
    /\ Done
    /\ outcome.kind = "Match"
    /\ objAttrs.ObjectParts # <<>>
    /\ idx = 3
    /\ offset = 2
    /\ Len(partLog) = 2
    /\ partLog[2].at = 1

(***************************************************************************)
(* main(), lines 184-189: the S3Uri argument.  The specification starts     *)
(* main() on an S3Uri made of one of the beginnings below and up to         *)
(* MaxTail further characters.                                              *)
(***************************************************************************)
UriBeginnings ==
    {S3Scheme, <<"s", "3", ":", "/">>, <<"S", "3", ":", "/", "/">>, <<>>, <<"/">> \o S3Scheme}

Uris ==
    {b \o t : b \in UriBeginnings, t \in SeqsUpTo({"b", "/"}, MaxTail)}

UriInit ==
    /\ s3Uri \in Uris
    /\ bucket = <<>>
    /\ key = <<>>
    /\ localPath = "file"
    /\ f = [data |-> <<>>, pos |-> 0]
    /\ objAttrs = [Checksum |-> <<>>, ObjectSize |-> 0, ObjectParts |-> <<>>]
    /\ pc = "parseArgs"
    /\ checksumOfChecksums = NoHash
    /\ algorithm = ""
    /\ objSum = <<>>
    /\ h = NoHash
    /\ numParts = 0
    /\ offset = 0
    /\ partNumber = 1
    /\ idx = 1
    /\ sum = <<>>
    /\ partLog = <<>>
    /\ outcome = Running
    /\ exitCode = -1

\* lines 185-189
ParseArgs ==
    /\ pc = "parseArgs"
    /\ bucket' = parseS3Uri(s3Uri)[1]
    /\ key' = parseS3Uri(s3Uri)[2]
    /\ IF parseS3Uri(s3Uri)[1] = <<>> \/ parseS3Uri(s3Uri)[2] = <<>>
       THEN Exit("UsageError", "s3uri", 1)
       ELSE pc' = "openFile" /\ UNCHANGED <<outcome, exitCode>>
    /\ UNCHANGED <<localPath, f, objAttrs, algorithm, objSum, h, numParts, offset,
                   partNumber, idx, sum, partLog, s3Uri, checksumOfChecksums>>

UriNext ==
    ParseArgs

UriSpec ==
    UriInit /\ [][UriNext]_vars

(***************************************************************************)
(* C14.  An S3Uri is accepted only in the form s3://<bucketname>/<key>      *)
(* with neither part empty.  For a string that does not start with s3://    *)
(* parseS3Uri gives ("", ""); otherwise the bucket is the text between      *)
(* s3:// and the first "/" after it and the key all the text after that     *)
(* "/", further slashes included; main() ends the run when either is empty. *)
(***************************************************************************)
\* s3Uri is s3:// followed by b, one "/" and k, with no "/" in b
IsSchemeBucketKey(b, k) ==
    /\ s3Uri = S3Scheme \o b \o <<"/">> \o k
    /\ \A i \in 1..Len(b) : b[i] # "/"

\* the text of s3Uri after its first five characters
AfterScheme ==
    SubSeq(s3Uri, Len(S3Scheme) + 1, Len(s3Uri))

C14_S3UriBucketAndKey ==
    pc # "parseArgs" =>
        /\ ~HasPrefix(s3Uri, S3Scheme) => (bucket = <<>> /\ key = <<>>)
        /\ HasPrefix(s3Uri, S3Scheme) =>
              IF \E i \in 1..Len(AfterScheme) : AfterScheme[i] = "/"
              THEN IsSchemeBucketKey(bucket, key)
              ELSE bucket = AfterScheme /\ key = <<>>
        /\ pc = "openFile" <=>
              \E i \in 1..Len(AfterScheme) : \E j \in 1..Len(AfterScheme) :
                  IsSchemeBucketKey(SubSeq(s3Uri, Len(S3Scheme) + 1, Len(S3Scheme) + i),
                                       SubSeq(s3Uri, Len(s3Uri) - j + 1, Len(s3Uri)))
        /\ pc = "openFile" => (bucket # <<>> /\ key # <<>> /\ outcome = Running)
        /\ pc = "exit" =>
              /\ bucket = <<>> \/ key = <<>>
              /\ outcome = Outcome("UsageError", "s3uri")
              /\ exitCode = 1

\* an accepted S3Uri whose key holds a further "/"
C14_Witness ==
    /\ pc = "openFile"
    /\ bucket = <<"b">>
    /\ key = <<"b", "/", "b">>

(***************************************************************************)
(* C15.  The checksum of checksums is created once, before the loop, and    *)
(* absorbs nothing but the raw digests of the parts: one digest per part,   *)
(* in the order of the parts, each only after its part has matched.  Each   *)
(* digest is that of a fresh hash of the run's algorithm that absorbed      *)
(* only the bytes read for its part.  At the final comparison it has        *)
(* absorbed the digests of the parts 1..N, each once.                       *)
(***************************************************************************)
\* main() is in the multipart branch, at the loop or past it
InPartLoop ==
    /\ objAttrs.ObjectParts # <<>>
    /\ pc = "partLoop" \/ (Done /\ outcome.reason \in
                               {"not sorted", "part", "read", "identical", "checksum"})

RECURSIVE MatchedDigests(_)
\* the digests of the matched parts among the first k hashed, in their order
MatchedDigests(k) ==
    IF k = 0 THEN <<>>
    ELSE MatchedDigests(k - 1) \o (IF partLog[k].matched THEN partLog[k].partSum ELSE <<>>)

C15_CompositeAbsorbsPartDigestsInOrder ==
    /\ pc = "multipart" => h = NewHash(algorithm).hash
    /\ InPartLoop =>
          /\ h.alg = algorithm
          /\ h.absorbed = MatchedDigests(Len(partLog))
          /\ \A k \in 1..Len(partLog) :
                /\ partLog[k].matched => \A j \in 1..k : partLog[j].matched
                /\ ~partLog[k].failed =>
                      partLog[k].partSum = Digest(algorithm, partLog[k].data)
                /\ partLog[k].partNumber = k
    /\ AtFinalVerdict =>
          /\ Len(partLog) = NParts
          /\ h.absorbed = LoggedDigests(NParts)
          /\ h.absorbed = RawPartDigests(NParts)
          /\ Len(h.absorbed) = NParts * DigestSize(algorithm)
          /\ sum \in {EncodeToString(Digest(algorithm, h.absorbed)),
                      EncodeToString(Digest(algorithm, h.absorbed)) \o PartCountSuffix}

\* a final comparison over the digests of two parts of one byte each
C15_Witness ==
    /\ AtFinalVerdict
    /\ NParts = 2
    /\ partLog[1].data # <<>>
    /\ partLog[2].data # <<>>
    /\ partLog[1].partSum # partLog[2].partSum
    /\ h.absorbed = partLog[1].partSum \o partLog[2].partSum

(***************************************************************************)
(* C16.  When the loop starts on part k, offset is the sum of the sizes of  *)
(* the parts before k and equals the number of bytes read from the input    *)
(* so far.  The bytes hashed for part k are the bytes [offset, offset+size) *)
(* of the input, read once and in order: the read position never moves      *)
(* back, and each part starts where the one before it ended.                *)
(***************************************************************************)
\* the bytes [lo, lo + size) of the input, as far as the input goes
StreamBytes(lo, size) ==
    Slice(f.data, lo, lo + size)

OffsetIsBytesConsumed ==
    (objAttrs.ObjectParts # <<>> /\ pc = "partLoop") =>
        /\ idx = Len(partLog) + 1
        /\ offset = SumSizes(Listing.Parts, idx - 1)
        /\ offset = f.pos

PartsReadInOrder ==
    InPartLoop =>
        \A k \in 1..Len(partLog) :
            /\ partLog[k].at = SumSizes(Listing.Parts, k - 1)
            /\ ~partLog[k].failed =>
                  partLog[k].data = StreamBytes(partLog[k].at, Listing.Parts[k].Size)
            /\ partLog[k].failed =>
                  \E n \in 0..Listing.Parts[k].Size :
                      partLog[k].data = StreamBytes(partLog[k].at, n)
            /\ k > 1 => partLog[k].at = partLog[k - 1].at + Len(partLog[k - 1].data)

\* a step never moves the read position back nor changes the input, and a
\* step that hashes a part moves it by the bytes it handed to the hash
NeverRewound ==
    /\ f'.data = f.data
    /\ f'.pos >= f.pos
    /\ Len(partLog') > Len(partLog) =>
          /\ partLog'[Len(partLog')].at = f.pos
          /\ f'.pos = f.pos + Len(partLog'[Len(partLog')].data)

C16_PartsAreConsecutiveByteRanges ==
    /\ []OffsetIsBytesConsumed
    /\ []PartsReadInOrder
    /\ [][NeverRewound]_vars

\* the second part of two, hashed from offset 1, with bytes unlike the first's
C16_Witness ==
    /\ InPartLoop
    /\ Len(partLog) = 2
    /\ partLog[2].matched
    /\ partLog[2].at = 1
    /\ partLog[2].data = StreamBytes(1, 1)
    /\ Len(partLog[2].data) = 1
    /\ partLog[1].data # partLog[2].data
    /\ offset = 2
    /\ f.pos = 2

(***************************************************************************)
(* The main() that reads each part with io.NewSectionReader (the file       *)
(* unnamed/part_001).  It opens a regular file only, compares the sizes in  *)
(* every run, and has two hashes: h, which takes the bytes of the file, and *)
(* checksumOfChecksums.                                                     *)
(***************************************************************************)
SectionInit ==
    /\ localPath = "file"
    /\ \E data \in LocalFiles : f = [data |-> data, pos |-> 0]
    /\ objAttrs \in Responses
    /\ pc = "checkChecksum"
    /\ algorithm = ""
    /\ objSum = <<>>
    /\ h = NoHash
    /\ checksumOfChecksums = NoHash
    /\ numParts = 0
    /\ offset = 0
    /\ partNumber = 1
    /\ idx = 1
    /\ sum = <<>>
    /\ partLog = <<>>
    /\ outcome = Running
    /\ exitCode = -1
    /\ s3Uri = AcceptedUri
    /\ bucket = parseS3Uri(AcceptedUri)[1]
    /\ key = parseS3Uri(AcceptedUri)[2]

\* part_001 lines 240-245
SectionCheckChecksum ==
    /\ pc = "checkChecksum"
    /\ IF objAttrs.Checksum = <<>>
       THEN Exit("StructuralError", "no checksum", 1)
       ELSE pc' = "compareSizes" /\ UNCHANGED <<outcome, exitCode>>
    /\ UNCHANGED <<localPath, f, objAttrs, algorithm, objSum, h, checksumOfChecksums,
                   numParts, offset, partNumber, idx, sum, partLog, argVars>>

\* part_001 lines 247-250; fileSize is stat.Size() of line 129
SectionCompareSizes ==
    /\ pc = "compareSizes"
    /\ IF objAttrs.ObjectSize # Len(f.data)
       THEN Exit("ObjectSizeMismatch", "size", 1)
       ELSE pc' = "selectAlgorithm" /\ UNCHANGED <<outcome, exitCode>>
    /\ UNCHANGED <<localPath, f, objAttrs, algorithm, objSum, h, checksumOfChecksums,
                   numParts, offset, partNumber, idx, sum, partLog, argVars>>

\* part_001 lines 252-277: the arm taken, "" for the else arm
SectionAlgorithm(checksum) ==
    IF checksum.ChecksumSHA1 # NIL THEN "SHA1"
    ELSE IF checksum.ChecksumSHA256 # NIL THEN "SHA256"
    ELSE IF checksum.ChecksumCRC32 # NIL THEN "CRC32"
    ELSE IF checksum.ChecksumCRC32C # NIL THEN "CRC32C"
    ELSE ""

\* part_001 lines 252-279, and the branch of line 281
SectionSelectAlgorithm ==
    /\ pc = "selectAlgorithm"
    /\ LET alg == SectionAlgorithm(objAttrs.Checksum[1])
       IN  IF alg = ""
           THEN /\ Exit("UnsupportedAlgorithm", "unsupported algorithm", 1)
                /\ UNCHANGED <<algorithm, objSum, h, checksumOfChecksums>>
           ELSE /\ algorithm' = alg
                /\ objSum' = FieldOf(objAttrs.Checksum[1], alg)
                /\ h' = NewHash(alg).hash
                /\ checksumOfChecksums' = NewHash(alg).hash
                /\ pc' = IF objAttrs.ObjectParts = <<>> THEN "singleStream" ELSE "multipart"
                /\ UNCHANGED <<outcome, exitCode>>
    /\ UNCHANGED <<localPath, f, objAttrs, numParts, offset, partNumber, idx, sum,
                   partLog, argVars>>

\* part_001 lines 283-298 when io.Copy returns no error
SectionSingleStream ==
    /\ pc = "singleStream"
    /\ LET hh == HashWrite(h, Slice(f.data, f.pos, Len(f.data)))
           local == EncodeToString(HashSum(hh))
       IN  /\ h' = hh
           /\ f' = [f EXCEPT !.pos = Len(f.data)]
           /\ sum' = local
           /\ IF local # objSum
              THEN Exit("Mismatch", "checksum", 1)
              ELSE Exit("Match", "identical", 0)
    /\ UNCHANGED <<localPath, objAttrs, algorithm, objSum, checksumOfChecksums,
                   numParts, offset, partNumber, idx, partLog, argVars>>

\* part_001 lines 283-287 when a read fails after n bytes
SectionSingleStreamReadError ==
    /\ pc = "singleStream"
    /\ \E n \in 0..(Len(f.data) - f.pos) :
          /\ h' = HashWrite(h, Slice(f.data, f.pos, f.pos + n))
          /\ f' = [f EXCEPT !.pos = f.pos + n]
    /\ Exit("IOError", "read", 1)
    /\ UNCHANGED <<localPath, objAttrs, algorithm, objSum, checksumOfChecksums,
                   numParts, offset, partNumber, idx, sum, partLog, argVars>>

\* part_001 lines 301-307
SectionBeginParts ==
    /\ pc = "multipart"
    /\ numParts' = Len(objAttrs.ObjectParts[1].Parts)
    /\ offset' = 0
    /\ idx' = 1
    /\ pc' = "partLoop"
    /\ UNCHANGED <<localPath, f, objAttrs, algorithm, objSum, h, checksumOfChecksums,
                   partNumber, sum, partLog, outcome, exitCode, argVars>>

\* part_001 line 309: what io.NewSectionReader(f, off, n) hands to io.Copy,
\* the bytes [off, off + n) of the file or fewer when the file ends before
sectionRead(file, off, n) ==
    Slice(file.data, off, off + n)

\* part_001 lines 317-320: some checksum field of the part record is
\* populated and differs from the local text
partDiffers(part, partSumEncoded) ==
    \/ part.ChecksumSHA1 # NIL /\ partSumEncoded # part.ChecksumSHA1
    \/ part.ChecksumSHA256 # NIL /\ partSumEncoded # part.ChecksumSHA256
    \/ part.ChecksumCRC32 # NIL /\ partSumEncoded # part.ChecksumCRC32
    \/ part.ChecksumCRC32C # NIL /\ partSumEncoded # part.ChecksumCRC32C

\* part_001 lines 308-330 when io.Copy returns no error: one iteration.  The
\* bytes of the part go into h, the one hash made at lines 252-277, and the
\* part's sum is h.Sum(nil); the file's own read position is not used.
SectionPartStep ==
    /\ pc = "partLoop"
    /\ idx <= Len(objAttrs.ObjectParts[1].Parts)
    /\ LET part == objAttrs.ObjectParts[1].Parts[idx]
           data == sectionRead(f, offset, part.Size)
           hh == HashWrite(h, data)
           partSum == HashSum(hh)
           partSumEncoded == EncodeToString(partSum)
           differs == partDiffers(part, partSumEncoded)
       IN  /\ h' = hh
           /\ partLog' = Append(partLog, [partNumber |-> part.PartNumber, at |-> offset,
                                          data |-> data, partSum |-> partSum,
                                          matched |-> ~differs, failed |-> FALSE])
           /\ IF differs
              THEN /\ pc' = "exit"
                   /\ outcome' = [kind |-> "Mismatch", reason |-> "part", hasPart |-> TRUE,
                                  part |-> part.PartNumber, lo |-> offset,
                                  hi |-> offset + part.Size]
                   /\ exitCode' = 1
                   /\ UNCHANGED <<checksumOfChecksums, offset, idx>>
              ELSE /\ checksumOfChecksums' = HashWrite(checksumOfChecksums, partSum)
                   /\ offset' = offset + part.Size
                   /\ idx' = idx + 1
                   /\ UNCHANGED <<pc, outcome, exitCode>>
    /\ UNCHANGED <<localPath, f, objAttrs, algorithm, objSum, numParts, partNumber,
                   sum, argVars>>

\* part_001 lines 309-313 when a read fails after n bytes of the part
SectionPartReadError ==
    /\ pc = "partLoop"
    /\ idx <= Len(objAttrs.ObjectParts[1].Parts)
    /\ \E n \in 0..Len(sectionRead(f, offset, objAttrs.ObjectParts[1].Parts[idx].Size)) :
          /\ h' = HashWrite(h, sectionRead(f, offset, n))
          /\ partLog' = Append(partLog,
                               [partNumber |-> objAttrs.ObjectParts[1].Parts[idx].PartNumber,
                                at |-> offset, data |-> sectionRead(f, offset, n),
                                partSum |-> <<>>, matched |-> FALSE, failed |-> TRUE])
    /\ Exit("IOError", "read", 1)
    /\ UNCHANGED <<localPath, f, objAttrs, algorithm, objSum, checksumOfChecksums,
                   numParts, offset, partNumber, idx, sum, argVars>>

\* part_001 lines 332-341, after the last part
SectionFinalCompare ==
    /\ pc = "partLoop"
    /\ idx > Len(objAttrs.ObjectParts[1].Parts)
    /\ LET local == EncodeToString(HashSum(checksumOfChecksums))
       IN  /\ sum' = local
           /\ IF local # objSum
              THEN Exit("Mismatch", "checksum", 1)
              ELSE Exit("Match", "identical", 0)
    /\ UNCHANGED <<localPath, f, objAttrs, algorithm, objSum, h, checksumOfChecksums,
                   numParts, offset, partNumber, idx, partLog, argVars>>

SectionNext ==
    \/ SectionCheckChecksum
    \/ SectionCompareSizes
    \/ SectionSelectAlgorithm
    \/ SectionSingleStream
    \/ SectionSingleStreamReadError
    \/ SectionBeginParts
    \/ SectionPartStep
    \/ SectionPartReadError
    \/ SectionFinalCompare

SectionSpec ==
    SectionInit /\ [][SectionNext]_vars

(***************************************************************************)
(* C17.  In the main() that reads with io.NewSectionReader, the digest      *)
(* compared with the digest of part k in the response is the digest of the  *)
(* bytes [offset, offset+size) of the local file and of nothing else, for   *)
(* every k, as in the main() that reads the file front to back; so a        *)
(* multipart object that this one finds identical (C1: complete listing     *)
(* with the published suffix-free checksum of checksums) is found           *)
(* identical by the other.                                                  *)
(***************************************************************************)
\* the response is one that lets the front-to-back main() report Match
SequentialMatches ==
    /\ CorrectMultipartDescriptor
    /\ RemoteSum = LocalComposite

\* the response names one algorithm, as S3 does
OneAlgorithm ==
    /\ objAttrs.Checksum # <<>>
    /\ Cardinality({a \in AlgorithmSet : FieldOf(objAttrs.Checksum[1], a) # NIL}) = 1

C17_SectionDigestIsOfThePartBytes ==
    OneAlgorithm =>
        /\ \A k \in 1..Len(partLog) :
              ~partLog[k].failed =>
                  /\ partLog[k].data = StreamBytes(partLog[k].at, Listing.Parts[k].Size)
                  /\ partLog[k].partSum = Digest(algorithm, partLog[k].data)
        /\ (Done /\ NoReadFailed /\ SequentialMatches) => outcome.kind = "Match"

(***************************************************************************)
(* C18.  A failed read of the local input, in the single-stream path or at  *)
(* part k of the multipart path, ends the run at once: the step that sees   *)
(* the error exits with an I/O error and status 1, nothing is read or       *)
(* hashed after it (no retry, no later part), no checksum of the file or    *)
(* checksum of checksums is produced, and the outcome is neither Match nor  *)
(* Mismatch.                                                                *)
(***************************************************************************)
\* a step in which io.Copy returns an error
ReadFails ==
    SingleStreamReadError \/ PartReadError

AbortsAtOnce ==
    ReadFails =>
        /\ pc' = "exit"
        /\ outcome' = Outcome("IOError", "read")
        /\ exitCode' = 1
        /\ sum' = <<>>
        /\ idx' = idx
        /\ offset' = offset
        /\ objAttrs.ObjectParts # <<>> => h' = h

\* no step is taken once main() has exited
NothingAfterExit ==
    pc # "exit"

FailedReadIsLast ==
    /\ \A k \in 1..Len(partLog) :
          partLog[k].failed =>
              /\ k = Len(partLog)
              /\ Done
              /\ outcome.kind = "IOError"
              /\ \A j \in 1..(k - 1) : partLog[j].matched
    /\ outcome.kind = "IOError" =>
          /\ Done
          /\ exitCode = 1
          /\ sum = <<>>
          /\ outcome.kind \notin {"Match", "Mismatch"}
          /\ objAttrs.ObjectParts # <<>> =>
                /\ Len(partLog) = idx
                /\ partLog[idx].failed
                /\ h.absorbed = MatchedDigests(idx - 1)

C18_ReadFailureAbortsTheRun ==
    /\ [][AbortsAtOnce]_vars
    /\ [][NothingAfterExit]_vars
    /\ []FailedReadIsLast

\* the read of the first of two parts fails after one byte
C18_Witness ==
    /\ Done
    /\ outcome = Outcome("IOError", "read")
    /\ objAttrs.ObjectParts # <<>>
    /\ NParts = 2
    /\ Len(partLog) = 1
    /\ partLog[1].failed
    /\ Len(partLog[1].data) = 1
    /\ Listing.Parts[1].Size = 1
    /\ h.absorbed = <<>>

(***************************************************************************)
(* C19.  A run that has got past its arguments exits with status 0 exactly  *)
(* when its outcome is Match, that is when the checksum of the whole input  *)
(* equals the object's checksum or when every part matched and the          *)
(* checksum of checksums equals it.  Every other outcome (a part or the     *)
(* whole not matching, sizes differing, no or no supported checksum, an     *)
(* incomplete or unsorted listing, a failed read) exits with status 1.      *)
(***************************************************************************)
\* what Match stands for in each of the two paths
ChecksumsAgree ==
    /\ sum = objSum
    /\ sum # <<>>
    /\ objAttrs.ObjectParts = <<>> => sum = WholeFileSum(f.data)
    /\ objAttrs.ObjectParts # <<>> => (AllPartsMatched /\ sum = Candidate)

C19_ExitStatusZeroIffMatch ==
    /\ ~Done => (exitCode = -1 /\ outcome = Running)
    /\ Done =>
          /\ exitCode \in {0, 1}
          /\ exitCode = 0 <=> outcome.kind = "Match"
          /\ outcome.kind = "Match" <=> (ChecksumsAgree /\ NoReadFailed)
          /\ outcome.kind \in {"Mismatch", "ObjectSizeMismatch", "UnsupportedAlgorithm",
                               "StructuralError", "IOError"} => exitCode = 1
          /\ outcome.kind \in TerminalKinds

\* standard input found identical to an object of two parts: status 0
C19_Witness ==
    /\ Done
    /\ exitCode = 0
    /\ outcome = Outcome("Match", "identical")
    /\ localPath = "-"
    /\ objAttrs.ObjectParts # <<>>
    /\ NParts = 2
    /\ ChecksumsAgree

====
